---- MODULE Spec2Model ----
(***************************************************************************)
(* State-machine model of the markdown -> Anki flashcard pipeline of       *)
(* anki_utils.py (functions) and modular_anki_utils.py (classes).  The two *)
(* files hold the same code line for line, so one model covers both.       *)
(*                                                                         *)
(* Text is modelled as a sequence of one-character strings, so that        *)
(* str.replace, str.endswith, str.title, ', '.join and the csv module's    *)
(* quoting are computed character by character.                            *)
(***************************************************************************)
EXTENDS Integers, Sequences, FiniteSets, TLC

(***************************************************************************)
(* Bounds of the model.                                                    *)
(***************************************************************************)
\* Most cards in the deck the backend returns.
MaxCards == 2
\* Most entries in the listing of the input directory.
MaxFiles == 2
\* Most tags of a card in the runs that draw the tags of a card.
MaxTags == 2

(***************************************************************************)
(* Text helpers.                                                           *)
(***************************************************************************)
\* s[from..] as a sequence.
Drop(s, n) == SubSeq(s, n + 1, Len(s))

\* s[..n] as a sequence.
Take(s, n) == SubSeq(s, 1, n)

\* str.startswith at an offset: t occurs in s at position i (1-based).
OccursAt(s, t, i) == /\ i + Len(t) - 1 <= Len(s)
                     /\ SubSeq(s, i, i + Len(t) - 1) = t

\* str.endswith
EndsWith(s, t) == /\ Len(t) <= Len(s)
                  /\ SubSeq(s, Len(s) - Len(t) + 1, Len(s)) = t

\* str.replace(old, new): every non-overlapping occurrence, left to right.
RECURSIVE StrReplace(_, _, _)
StrReplace(s, old, new) ==
    IF s = <<>> THEN <<>>
    ELSE IF OccursAt(s, old, 1)
         THEN new \o StrReplace(Drop(s, Len(old)), old, new)
         ELSE <<Head(s)>> \o StrReplace(Tail(s), old, new)

\* sep.join(parts)
RECURSIVE StrJoin(_, _)
StrJoin(sep, parts) ==
    IF parts = <<>> THEN <<>>
    ELSE IF Len(parts) = 1 THEN parts[1]
    ELSE parts[1] \o sep \o StrJoin(sep, Tail(parts))

\* The cased characters that occur in the model's names.
LowerCase == <<"a", "b", "c", "d", "f", "h", "l", "m", "r", "s", "t", "v", "x">>
UpperCase == <<"A", "B", "C", "D", "F", "H", "L", "M", "R", "S", "T", "V", "X">>

IndexIn(s, c) == CHOOSE i \in 1..Len(s) : s[i] = c
Occurs(s, c) == \E i \in 1..Len(s) : s[i] = c

ToUpper(c) == IF Occurs(LowerCase, c) THEN UpperCase[IndexIn(LowerCase, c)] ELSE c

ToLower(c) == IF Occurs(UpperCase, c) THEN LowerCase[IndexIn(UpperCase, c)] ELSE c

IsCased(c) == Occurs(LowerCase, c) \/ Occurs(UpperCase, c)

\* str.title(): a cased character is upper-cased when the character before
\* it is not cased (or it is the first), lower-cased otherwise.
StrTitle(s) ==
    [i \in 1..Len(s) |->
        IF i = 1 \/ ~IsCased(s[i - 1]) THEN ToUpper(s[i]) ELSE ToLower(s[i])]

MdSuffix == <<".", "m", "d">>
CsvSuffix == <<"-", "f", "l", "a", "s", "h", "c", "a", "r", "d", "s",
               ".", "c", "s", "v">>

\* output_filename = filename.replace('.md', '-flashcards.csv')
OutputFilename(filename) == StrReplace(filename, MdSuffix, CsvSuffix)

\* deck_name = filename[:-3].replace('-', ' ').replace('_', ' ').title()
DeckName(filename) ==
    StrTitle(StrReplace(StrReplace(Take(filename, Len(filename) - 3),
                                   <<"-">>, <<" ">>),
                        <<"_">>, <<" ">>))

(***************************************************************************)
(* Data model: AnkiFlashcard and AnkiDeck (pydantic models).  The schema   *)
(* types the fields and states no further constraint, so an empty answer,  *)
(* an empty tag list and a deck without cards all validate.                *)
(***************************************************************************)
AnkiFlashcard(q, a, t) == [question |-> q, answer |-> a, tags |-> t]

AnkiDeck(c, n) == [cards |-> c, deck_name |-> n]

\* Optional[AnkiDeck]: None is the empty sequence, a deck d is <<d>>.
None == <<>>
Some(d) == <<d>>

\* Truth value of an Optional[AnkiDeck] in `if deck`: a BaseModel defines
\* neither __bool__ nor __len__, so every deck, also one without cards, is
\* true, and only None is false.
Truthy(opt) == opt # None

\* The cards a backend may return.  CardQuoted's answer holds a comma and
\* double quotes (as in He said, "hello") and it has two tags;
\* CardMultiline's question holds a line break, its answer is empty and it
\* has no tag.
CardQuoted ==
    AnkiFlashcard(<<"x">>, <<"a", ",", " ", "\"", "b", "\"">>,
                  << <<"a">>, <<"b">> >>)
CardMultiline == AnkiFlashcard(<<"x", "\n", "t">>, <<>>, <<>>)

Cards == {CardQuoted, CardMultiline}

\* Sequences over S of length at most n.
SeqUpTo(S, n) == UNION {[1..k -> S] : k \in 0..n}

CardLists == SeqUpTo(Cards, MaxCards)

(***************************************************************************)
(* File names of the input directory.                                      *)
(***************************************************************************)
NamePlain == <<"a", "-", "b", "_", "c", ".", "m", "d">>
NameDoubleMd == <<"a", ".", "m", "d", ".", "m", "d">>
NameCsvMd == <<"a">> \o CsvSuffix \o MdSuffix
NameText == <<"a", ".", "t", "x", "t">>

Names == {NamePlain, NameDoubleMd, NameCsvMd, NameText}

(***************************************************************************)
(* The csv module as the writer uses it: csv.writer(csvfile) with the      *)
(* default dialect (delimiter ',', quotechar '"', doublequote,             *)
(* QUOTE_MINIMAL, lineterminator '\r\n'), on a file opened with            *)
(* newline='' so that no character is translated.                          *)
(***************************************************************************)
Delimiter == ","
QuoteChar == "\""
LineTerminator == <<"\r", "\n">>

\* QUOTE_MINIMAL: a field is quoted when it holds the delimiter, the quote
\* character or a character of the line terminator.
NeedsQuote(f) ==
    \E i \in 1..Len(f) : f[i] \in {Delimiter, QuoteChar, "\r", "\n"}

\* doublequote: every quote character inside a quoted field is doubled.
RECURSIVE DoubleQuotes(_)
DoubleQuotes(f) ==
    IF f = <<>> THEN <<>>
    ELSE (IF Head(f) = QuoteChar THEN <<QuoteChar, QuoteChar>> ELSE <<Head(f)>>)
         \o DoubleQuotes(Tail(f))

\* A writer that quotes nothing.
CsvFieldUnquoted(f) == f

CsvField(f) ==
    IF NeedsQuote(f) THEN <<QuoteChar>> \o DoubleQuotes(f) \o <<QuoteChar>>
    ELSE f

\* writer.writerow(fields): the characters one call writes.
CsvRow(fields) ==
    StrJoin(<<Delimiter>>, [i \in 1..Len(fields) |-> CsvField(fields[i])])
    \o LineTerminator

HeaderRow == << <<"Q", "u", "e", "s", "t", "i", "o", "n">>,
                <<"A", "n", "s", "w", "e", "r">>,
                <<"T", "a", "g", "s">> >>

\* A writer that joins the tags with a bare comma.
TagSeparatorComma == <<",">>

TagSeparator == <<",", " ">>

\* [card.question, card.answer, ', '.join(card.tags)]
CardRow(card) == <<card.question, card.answer, StrJoin(TagSeparator, card.tags)>>

\* The rows the writer writes for a deck, in the order it writes them.
DeckRows(deck) == <<HeaderRow>> \o [i \in 1..Len(deck.cards) |-> CardRow(deck.cards[i])]

\* The characters of the first k rows.
RECURSIVE RowsBytes(_, _)
RowsBytes(rows, k) ==
    IF k = 0 THEN <<>> ELSE RowsBytes(rows, k - 1) \o CsvRow(rows[k])

(***************************************************************************)
(* The environment: directories, paths and the faults the operating system *)
(* and the backend can answer with.                                        *)
(***************************************************************************)
\* Directory paths.  DirOut is a directory that exists or can be created,
\* DirEmpty is the empty string (os.path.dirname of a bare file name),
\* DirFile is the path of an existing regular file, DirEssays is an existing
\* directory of documents and DirMissing does not exist.
DirOut == "out"
DirEmpty == ""
DirFile == "file"
DirEssays == "essays"
DirMissing == "missing"

OutputDirs == {DirOut, DirEmpty, DirFile}
InputDirs == {DirEssays, DirMissing, DirFile}

\* os.path.join(dir, name) and os.path.dirname(path)
PathJoin(dir, name) == [dir |-> dir, name |-> name]
Dirname(path) == path.dir

\* os.path.exists for the input directory
PathExists(dir) == dir \in {DirEssays, DirFile}

\* What the operating system does to one write_deck_to_csv call: nothing,
\* refuse to create the directory, refuse to open the file, or fail the
\* write of row number `at` + 1 (disk full, encoding error).
WriteFaults ==
    {[kind |-> k, at |-> 0] : k \in {"none", "mkdir", "open"}}
    \cup {[kind |-> "write", at |-> k] : k \in 0..MaxCards}

\* What the backend answers to one parse call: a deck, no deck (a refusal
\* leaves message.parsed = None) or an exception.  Every fault of the
\* environment is an Exception, the class the except clauses catch; a
\* KeyboardInterrupt or SystemExit is outside the model.
BackendOutcomes == {"deck", "none", "raise"}

\* num_cards as callers pass it.
NumCardsValues == {-1, 0, 1}

NoError == "none"

(***************************************************************************)
(* os.makedirs(dir, exist_ok=True)                                         *)
(***************************************************************************)
Makedirs(ds, dir, fault) ==
    IF dir = DirEmpty THEN [raised |-> "FileNotFoundError", dirs |-> ds]
    ELSE IF dir = DirFile THEN [raised |-> "FileExistsError", dirs |-> ds]
    ELSE IF dir \in ds THEN [raised |-> NoError, dirs |-> ds]
    ELSE IF fault.kind = "mkdir" THEN [raised |-> "PermissionError", dirs |-> ds]
    ELSE [raised |-> NoError, dirs |-> ds \cup {dir}]

(***************************************************************************)
(* generate_structured_flashcards / FlashcardGenerator.generate_deck       *)
(***************************************************************************)
\* The try block: the backend call and the read of its parsed message.  The
\* backend is asked for a deck of the given name and answers with `cards`.
GenerateTry(deck_name, backend, cards) ==
    IF backend = "raise"
    THEN [raised |-> "BackendError", ret |-> None, backendCalls |-> 1]
    ELSE IF backend = "none"
    THEN [raised |-> NoError, ret |-> None, backendCalls |-> 1]
    ELSE [raised |-> NoError, ret |-> Some(AnkiDeck(cards, deck_name)),
          backendCalls |-> 1]

\* except Exception: print and return None
GenerateExcept(r) ==
    IF r.raised # NoError THEN [r EXCEPT !.raised = NoError, !.ret = None] ELSE r

\* A generator whose validation accepts num_cards = 0.
GenerateAcceptingZero(deck_name, num_cards, backend, cards) ==
    IF num_cards < 0
    THEN [raised |-> "ValueError", ret |-> None, backendCalls |-> 0]
    ELSE GenerateExcept(GenerateTry(deck_name, backend, cards))

generate_structured_flashcards(deck_name, num_cards, backend, cards) ==
    IF num_cards < 1
    THEN [raised |-> "ValueError", ret |-> None, backendCalls |-> 0]
    ELSE GenerateExcept(GenerateTry(deck_name, backend, cards))

(***************************************************************************)
(* write_deck_to_csv / DeckWriter.write_to_csv                             *)
(***************************************************************************)
\* open(output_path, 'a'): the file exists and keeps what it held.
OpenForAppend(fs, path) ==
    [p \in DOMAIN fs \cup {path} |-> IF p \in DOMAIN fs THEN fs[p] ELSE <<>>]

\* open(output_path, 'w'): the file exists and is empty afterwards.
OpenForWrite(fs, path) ==
    [p \in DOMAIN fs \cup {path} |-> IF p = path THEN <<>> ELSE fs[p]]

\* The file after the rows written through the handle are appended to it.
WriteRows(fs, path, rows, k) ==
    [fs EXCEPT ![path] = fs[path] \o RowsBytes(rows, k)]

\* A writer whose failed open leaves the file empty.
WriteTryTruncatingOnOpenFault(ds, fs, deck, output_path, fault) ==
    LET mk == Makedirs(ds, Dirname(output_path), fault)
        rows == DeckRows(deck)
        opened == OpenForWrite(fs, output_path)
    IN  IF mk.raised # NoError
        THEN [raised |-> mk.raised, ok |-> FALSE, dirs |-> ds, files |-> fs]
        ELSE IF fault.kind = "open"
        THEN [raised |-> "PermissionError", ok |-> FALSE,
              dirs |-> mk.dirs, files |-> opened]
        ELSE IF fault.kind = "write" /\ fault.at < Len(rows)
        THEN [raised |-> "OSError", ok |-> FALSE, dirs |-> mk.dirs,
              files |-> WriteRows(opened, output_path, rows, fault.at)]
        ELSE [raised |-> NoError, ok |-> TRUE, dirs |-> mk.dirs,
              files |-> WriteRows(opened, output_path, rows, Len(rows))]

\* The try block: makedirs, open, header, one row per card, return True.
WriteTry(ds, fs, deck, output_path, fault) ==
    LET mk == Makedirs(ds, Dirname(output_path), fault)
        rows == DeckRows(deck)
        opened == OpenForWrite(fs, output_path)
    IN  IF mk.raised # NoError
        THEN [raised |-> mk.raised, ok |-> FALSE, dirs |-> ds, files |-> fs]
        ELSE IF fault.kind = "open"
        THEN [raised |-> "PermissionError", ok |-> FALSE,
              dirs |-> mk.dirs, files |-> fs]
        ELSE IF fault.kind = "write" /\ fault.at < Len(rows)
        THEN [raised |-> "OSError", ok |-> FALSE, dirs |-> mk.dirs,
              files |-> WriteRows(opened, output_path, rows, fault.at)]
        ELSE [raised |-> NoError, ok |-> TRUE, dirs |-> mk.dirs,
              files |-> WriteRows(opened, output_path, rows, Len(rows))]

\* A writer without its except clause.
WriteExceptReraise(r) == r

\* except Exception: print and return False
WriteExcept(r) ==
    IF r.raised # NoError THEN [r EXCEPT !.raised = NoError, !.ok = FALSE] ELSE r

write_deck_to_csv(ds, fs, deck, output_path, fault) ==
    WriteExcept(WriteTry(ds, fs, deck, output_path, fault))

(***************************************************************************)
(* process_markdown_to_anki / MarkdownProcessor.process_file               *)
(***************************************************************************)
\* What reading the source can raise: nothing, a missing file, a file that
\* is not UTF-8 text.
SourceFaults == {NoError, "FileNotFoundError", "UnicodeDecodeError"}

\* A pipeline that calls the writer whatever the generator returned: with
\* None the writer creates the directory, opens the file, writes the header
\* and fails on deck.cards.
WriteIfDeckUnguarded(ds, fs, opt, output_path, fault) ==
    LET w == IF Truthy(opt)
             THEN write_deck_to_csv(ds, fs, opt[1], output_path, fault)
             ELSE write_deck_to_csv(ds, fs, AnkiDeck(<<>>, <<>>), output_path,
                                    [kind |-> "write", at |-> 1])
    IN  [raised |-> w.raised,
         ret |-> IF w.raised = NoError /\ w.ok THEN opt ELSE None,
         writerCalls |-> 1, writeOk |-> w.ok, dirs |-> w.dirs, files |-> w.files]

\* A pipeline that returns the deck whatever the writer returned.
WriteIfDeckIgnoringResult(ds, fs, opt, output_path, fault) ==
    IF Truthy(opt)
    THEN LET w == write_deck_to_csv(ds, fs, opt[1], output_path, fault)
         IN  [raised |-> w.raised, ret |-> opt, writerCalls |-> 1,
              writeOk |-> w.ok, dirs |-> w.dirs, files |-> w.files]
    ELSE [raised |-> NoError, ret |-> None, writerCalls |-> 0,
          writeOk |-> FALSE, dirs |-> ds, files |-> fs]

\* if deck and write_deck_to_csv(deck, output_path): return deck
\* return None
WriteIfDeck(ds, fs, opt, output_path, fault) ==
    IF Truthy(opt)
    THEN LET w == write_deck_to_csv(ds, fs, opt[1], output_path, fault)
         IN  [raised |-> w.raised,
              ret |-> IF w.raised = NoError /\ w.ok THEN opt ELSE None,
              writerCalls |-> 1, writeOk |-> w.ok,
              dirs |-> w.dirs, files |-> w.files]
    ELSE [raised |-> NoError, ret |-> None, writerCalls |-> 0,
          writeOk |-> FALSE, dirs |-> ds, files |-> fs]

\* The try block: read the source, generate, write.
PipelineTry(ds, fs, output_path, deck_name, num_cards, src, backend, cards, fault) ==
    IF src # NoError
    THEN [raised |-> src, ret |-> None, backendCalls |-> 0, writerCalls |-> 0,
          generated |-> None, writeOk |-> FALSE, dirs |-> ds, files |-> fs]
    ELSE LET g == generate_structured_flashcards(deck_name, num_cards, backend, cards)
             w == WriteIfDeck(ds, fs, g.ret, output_path, fault)
         IN  IF g.raised # NoError
             THEN [raised |-> g.raised, ret |-> None,
                   backendCalls |-> g.backendCalls, writerCalls |-> 0,
                   generated |-> None, writeOk |-> FALSE,
                   dirs |-> ds, files |-> fs]
             ELSE [raised |-> w.raised, ret |-> w.ret,
                   backendCalls |-> g.backendCalls,
                   writerCalls |-> w.writerCalls, generated |-> g.ret,
                   writeOk |-> w.writeOk, dirs |-> w.dirs, files |-> w.files]

\* A pipeline without its except clause.
PipelineExceptReraise(r) == r

\* except Exception: print and return None
PipelineExcept(r) ==
    IF r.raised # NoError THEN [r EXCEPT !.raised = NoError, !.ret = None] ELSE r

process_markdown_to_anki(ds, fs, output_path, deck_name, num_cards, src, backend, cards, fault) ==
    PipelineExcept(PipelineTry(ds, fs, output_path, deck_name, num_cards,
                               src, backend, cards, fault))

(***************************************************************************)
(* process_directory_to_anki / MarkdownProcessor.process_directory         *)
(***************************************************************************)
\* A prologue that creates output_dir before it checks input_dir.
BatchPrologueMakedirsFirst(ds, input_dir, output_dir, fault) ==
    LET mk == Makedirs(ds, output_dir, fault)
    IN  IF mk.raised # NoError THEN mk
        ELSE IF ~PathExists(input_dir)
        THEN [raised |-> "FileNotFoundError", dirs |-> mk.dirs]
        ELSE IF input_dir = DirFile
        THEN [raised |-> "NotADirectoryError", dirs |-> mk.dirs]
        ELSE mk

\* Before the loop: the existence check, makedirs(output_dir) and
\* os.listdir(input_dir), which raises on a path that is no directory.
BatchPrologue(ds, input_dir, output_dir, fault) ==
    IF ~PathExists(input_dir)
    THEN [raised |-> "FileNotFoundError", dirs |-> ds]
    ELSE LET mk == Makedirs(ds, output_dir, fault)
         IN  IF mk.raised # NoError THEN mk
             ELSE IF input_dir = DirFile
             THEN [raised |-> "NotADirectoryError", dirs |-> mk.dirs]
             ELSE mk

\* if filename.endswith('.md')
IsCandidate(filename) == EndsWith(filename, MdSuffix)

\* except Exception around the pipeline call of one file: print, go on.
IterationExcept(r) ==
    IF r.raised # NoError THEN [r EXCEPT !.raised = NoError, !.ret = None] ELSE r

\* A loop that puts each new deck in front of the earlier ones.
AppendIfDeckInFront(decks, opt) ==
    IF Truthy(opt) THEN <<opt[1]>> \o decks ELSE decks

\* if deck: generated_decks.append(deck)
AppendIfDeck(decks, opt) == IF Truthy(opt) THEN Append(decks, opt[1]) ELSE decks

(***************************************************************************)
(* State.                                                                  *)
(***************************************************************************)
VARIABLES
    dirs,             \* the directories that exist, among the creatable ones
    files,            \* output path -> the characters of the file there
    listing,          \* os.listdir(DirEssays), in the order it yields
    backendCards,     \* the cards the backend stub answers with
    pc,               \* position of process_directory: idle, loop, returned, raised
    args,             \* its arguments
    idx,              \* position of its loop in the listing
    generated_decks,  \* its accumulator
    raised,           \* the exception it ended with
    journal,          \* one entry per file it ran the pipeline for
    last              \* the record of the last generator, writer or pipeline call

vars == <<dirs, files, listing, backendCards, pc, args, idx,
          generated_decks, raised, journal, last>>

Candidates == {n \in Names : IsCandidate(n)}

\* Listings of the input directory: its names are distinct.
Listings ==
    {l \in SeqUpTo(Names, MaxFiles) :
        \A i, j \in 1..Len(l) : i # j => l[i] # l[j]}

\* What an earlier run left at an output path.
StaleBytes == <<"o", "l", "d", "\r", "\n", "o", "l", "d", "\r", "\n">>

NoFiles == [p \in {} |-> <<>>]

StaleFiles(names) ==
    [p \in {PathJoin(DirOut, OutputFilename(n)) : n \in names} |-> StaleBytes]

NoFault == [kind |-> "none", at |-> 0]

NoCall ==
    [op |-> "none", raised |-> NoError, ret |-> None, ok |-> FALSE,
     backendCalls |-> 0, writerCalls |-> 0, generated |-> None,
     num_cards |-> 1, output_path |-> PathJoin(DirEmpty, <<>>),
     deck |-> None, fails |-> FALSE, rerun |-> FALSE, permitted |-> FALSE,
     opened |-> FALSE]

NoArgs == [input_dir |-> DirMissing, output_dir |-> DirEmpty, num_cards |-> 1]

\* The environment makes the write of these cards at this path fail.
WriteFails(ds, output_path, cards, fault) ==
    \/ Dirname(output_path) \in {DirEmpty, DirFile}
    \/ Dirname(output_path) \notin ds /\ fault.kind = "mkdir"
    \/ fault.kind = "open"
    \/ fault.kind = "write" /\ fault.at <= Len(cards)

\* The environment permits the write: the parent directory of output_path
\* exists (the current directory for a bare file name) or can be created,
\* and the file can be opened and every row written.
WritePermitted(ds, output_path, cards, fault) ==
    /\ Dirname(output_path) # DirFile
    /\ \/ Dirname(output_path) \in ds \cup {DirEmpty}
       \/ fault.kind # "mkdir"
    /\ fault.kind # "open"
    /\ ~(fault.kind = "write" /\ fault.at <= Len(cards))

\* The environment makes this document fail: an unreadable source, an
\* invalid num_cards, a backend that raises or returns no deck, a failed write.
DocumentFails(ds, output_path, num_cards, e, cards) ==
    \/ e.src # NoError
    \/ num_cards < 1
    \/ e.backend # "deck"
    \/ WriteFails(ds, output_path, cards, e.fault)

\* The environment lets the writer open the file at output_path.
WriteOpens(ds, output_path, fault) ==
    /\ Dirname(output_path) \notin {DirEmpty, DirFile}
    /\ Dirname(output_path) \in ds \/ fault.kind # "mkdir"
    /\ fault.kind # "open"

\* The environment lets this document reach the writer and the writer open
\* the file at output_path.
DocumentOpens(ds, output_path, num_cards, e) ==
    /\ e.src = NoError
    /\ num_cards >= 1
    /\ e.backend = "deck"
    /\ WriteOpens(ds, output_path, e.fault)

\* The answers of the environment to one pipeline call.  An answer is drawn
\* only for a step the call can reach: no backend answer when the source is
\* unreadable or num_cards is invalid, no write fault without a deck, no
\* failing row beyond the last one.
Environments(num_cards, cards) ==
    {e \in [src : SourceFaults, backend : BackendOutcomes, fault : WriteFaults] :
        /\ (e.src # NoError \/ num_cards < 1) => e.backend = "deck"
        /\ (e.src # NoError \/ num_cards < 1 \/ e.backend # "deck")
              => e.fault = NoFault
        /\ e.fault.kind = "write" => e.fault.at <= Len(cards)}

\* The record of a pipeline call.  rerun: the call before it was a
\* successful pipeline call for the same output path and the same deck.
PipelineRecord(r, num_cards, output_path, fails, opened) ==
    [NoCall EXCEPT !.rerun = /\ last.op = "pipeline"
                             /\ Truthy(last.ret)
                             /\ last.output_path = output_path
                             /\ last.ret = r.ret,
                   !.op = "pipeline", !.raised = r.raised, !.ret = r.ret,
                   !.ok = r.writeOk, !.backendCalls = r.backendCalls,
                   !.writerCalls = r.writerCalls, !.generated = r.generated,
                   !.num_cards = num_cards, !.output_path = output_path,
                   !.deck = r.generated, !.fails = fails, !.opened = opened]

BatchVarsUnchanged ==
    UNCHANGED <<listing, backendCards, pc, args, idx, generated_decks,
                raised, journal>>

(***************************************************************************)
(* Direct calls of the generator, the writer and the pipeline, as the      *)
(* example scripts make them for one document, NamePlain.  Any number of   *)
(* calls follow each other on the same filesystem.                         *)
(***************************************************************************)
Init ==
    /\ dirs \in {{}, {DirOut}}
    /\ files \in {NoFiles} \cup
                 (IF DirOut \in dirs THEN {StaleFiles({NamePlain})} ELSE {})
    /\ listing = <<>>
    /\ backendCards \in CardLists
    /\ pc = "idle"
    /\ args = NoArgs
    /\ idx = 0
    /\ generated_decks = <<>>
    /\ raised = NoError
    /\ journal = <<>>
    /\ last = NoCall

GenerateCall ==
    /\ \E n \in NumCardsValues, b \in BackendOutcomes :
         LET g == generate_structured_flashcards(DeckName(NamePlain), n, b,
                                                 backendCards)
         IN  last' = [NoCall EXCEPT !.op = "generate", !.raised = g.raised,
                                    !.ret = g.ret, !.generated = g.ret,
                                    !.backendCalls = g.backendCalls,
                                    !.num_cards = n]
    /\ UNCHANGED <<dirs, files>>
    /\ BatchVarsUnchanged

WriteCall ==
    /\ \E dir \in OutputDirs, fault \in WriteFaults :
         LET path == PathJoin(dir, OutputFilename(NamePlain))
             deck == AnkiDeck(backendCards, DeckName(NamePlain))
             w == write_deck_to_csv(dirs, files, deck, path, fault)
         IN  /\ fault.kind = "write" => fault.at <= Len(backendCards)
             /\ dirs' = w.dirs
             /\ files' = w.files
             /\ last' = [NoCall EXCEPT !.op = "write", !.raised = w.raised,
                                       !.ok = w.ok, !.writerCalls = 1,
                                       !.output_path = path,
                                       !.deck = Some(deck),
                                       !.fails = WriteFails(dirs, path,
                                                            backendCards, fault),
                                       !.permitted = WritePermitted(dirs, path,
                                                            backendCards, fault)]
    /\ BatchVarsUnchanged

PipelineCall ==
    /\ \E dir \in OutputDirs, n \in NumCardsValues :
         \E e \in Environments(n, backendCards) :
            LET path == PathJoin(dir, OutputFilename(NamePlain))
                r == process_markdown_to_anki(dirs, files, path,
                                              DeckName(NamePlain), n, e.src,
                                              e.backend, backendCards, e.fault)
                fails == DocumentFails(dirs, path, n, e, backendCards)
            IN  /\ dirs' = r.dirs
                /\ files' = r.files
                /\ last' = PipelineRecord(r, n, path, fails,
                                           DocumentOpens(dirs, path, n, e))
    /\ BatchVarsUnchanged

Next ==
    \/ GenerateCall
    \/ WriteCall
    \/ PipelineCall

Spec == Init /\ [][Next]_vars

(***************************************************************************)
(* One run of process_directory_to_anki, step by step: the code before the *)
(* loop, one iteration of the loop, the code after it.                     *)
(***************************************************************************)
\* The decks of the backend stub in a directory run.
BatchCardLists == {<<>>, <<CardQuoted>>, <<CardMultiline, CardQuoted>>}

InitBatch ==
    /\ dirs \in {{}, {DirOut}}
    /\ files \in {NoFiles} \cup
                 (IF DirOut \in dirs THEN {StaleFiles(Candidates)} ELSE {})
    /\ listing \in Listings
    /\ backendCards \in BatchCardLists
    /\ pc = "idle"
    /\ args = NoArgs
    /\ idx = 0
    /\ generated_decks = <<>>
    /\ raised = NoError
    /\ journal = <<>>
    /\ last = NoCall

BatchStart ==
    /\ pc = "idle"
    /\ \E input_dir \in InputDirs, output_dir \in OutputDirs,
          n \in NumCardsValues, fault \in WriteFaults :
         /\ fault.kind \in {"none", "mkdir"}
         /\ LET pr == BatchPrologue(dirs, input_dir, output_dir, fault)
            IN  /\ dirs' = pr.dirs
                /\ raised' = pr.raised
                /\ pc' = IF pr.raised = NoError THEN "loop" ELSE "raised"
         /\ args' = [input_dir |-> input_dir, output_dir |-> output_dir,
                     num_cards |-> n]
    /\ idx' = 1
    /\ UNCHANGED <<files, listing, backendCards, generated_decks, journal, last>>

\* One iteration for a name that does not end in '.md': nothing happens.
BatchSkip ==
    /\ pc = "loop"
    /\ idx <= Len(listing)
    /\ ~IsCandidate(listing[idx])
    /\ idx' = idx + 1
    /\ UNCHANGED <<dirs, files, listing, backendCards, pc, args,
                   generated_decks, raised, journal, last>>

\* One iteration for a name that ends in '.md'.
BatchStep ==
    /\ pc = "loop"
    /\ idx <= Len(listing)
    /\ IsCandidate(listing[idx])
    /\ \E e \in Environments(args.num_cards, backendCards) :
         LET filename == listing[idx]
             output_filename == OutputFilename(filename)
             output_path == PathJoin(args.output_dir, output_filename)
             deck_name == DeckName(filename)
             r == IterationExcept(
                    process_markdown_to_anki(dirs, files, output_path, deck_name,
                                             args.num_cards, e.src, e.backend,
                                             backendCards, e.fault))
             fails == DocumentFails(dirs, output_path, args.num_cards, e,
                                    backendCards)
         IN  /\ dirs' = r.dirs
             /\ files' = r.files
             /\ generated_decks' = AppendIfDeck(generated_decks, r.ret)
             /\ journal' = Append(journal,
                    [filename |-> filename, output_path |-> output_path,
                     deck_name |-> deck_name, fails |-> fails,
                     generated |-> r.generated, writeOk |-> r.writeOk,
                     ret |-> r.ret])
             /\ last' = PipelineRecord(r, args.num_cards, output_path, fails,
                                        DocumentOpens(dirs, output_path,
                                                      args.num_cards, e))
             /\ raised' = r.raised
             /\ pc' = IF r.raised = NoError THEN "loop" ELSE "raised"
    /\ idx' = idx + 1
    /\ UNCHANGED <<listing, backendCards, args>>

\* After the loop: the summary is printed and generated_decks returned.
BatchFinish ==
    /\ pc = "loop"
    /\ idx > Len(listing)
    /\ pc' = "returned"
    /\ UNCHANGED <<dirs, files, listing, backendCards, args, idx,
                   generated_decks, raised, journal, last>>

NextBatch ==
    \/ BatchStart
    \/ BatchSkip
    \/ BatchStep
    \/ BatchFinish

SpecBatch == InitBatch /\ [][NextBatch]_vars

(***************************************************************************)
(* Properties.                                                             *)
(***************************************************************************)
\* The entries of the listing the batch considers.
CandidatesOf(l) == {i \in 1..Len(l) : IsCandidate(l[i])}

\* The documents of the run that the environment made fail.
FailedEntries == {i \in 1..Len(journal) : journal[i].fails}

\* C1: batch fault isolation.  A run over an existing input directory whose
\* listing holds N names ending in '.md', M of which fail, never raises,
\* runs the pipeline for each of the N and returns exactly N - M decks.
C1_BatchFaultIsolation ==
    (pc # "idle" /\ args.input_dir = DirEssays) =>
        /\ pc # "raised"
        /\ raised = NoError
        /\ pc = "returned" =>
             /\ Len(journal) = Cardinality(CandidatesOf(listing))
             /\ Len(generated_decks) =
                    Cardinality(CandidatesOf(listing)) - Cardinality(FailedEntries)

\* The part of C1 that holds: once the code before the loop has passed, no
\* document's failure ends the run, every candidate is run and N - M decks
\* are returned.
LoopFaultIsolation ==
    (pc \in {"loop", "returned"}) =>
        /\ raised = NoError
        /\ Len(generated_decks) = Len(journal) - Cardinality(FailedEntries)
        /\ pc = "returned" => Len(journal) = Cardinality(CandidatesOf(listing))

\* C2: the pipeline never lets an exception escape: whatever the source,
\* num_cards, the backend and the write do, it returns, and it returns None
\* when one of them fails.
C2_PipelineNeverRaises ==
    last.op = "pipeline" =>
        /\ last.raised = NoError
        /\ last.fails => last.ret = None

\* A pipeline call with num_cards < 1: the generator raised ValueError inside.
C2_Witness ==
    /\ last.op = "pipeline"
    /\ last.num_cards < 1
    /\ last.fails
    /\ last.ret = None

\* C3: for num_cards < 1 the generator raises ValueError to its caller and
\* the backend is not called in that invocation, made directly or by the
\* pipeline.
C3_InvalidNumCards ==
    /\ (last.op = "generate" /\ last.num_cards < 1) =>
           /\ last.raised = "ValueError"
           /\ last.backendCalls = 0
    /\ (last.op = "pipeline" /\ last.num_cards < 1) => last.backendCalls = 0

C3_Witness ==
    /\ last.op = "generate"
    /\ last.num_cards = 0
    /\ last.raised = "ValueError"

\* C4: with an input_dir that does not exist, process_directory raises
\* FileNotFoundError before any other effect: no directory is created, no
\* file changes, no document is read and the backend is not called.
C4_BatchPrecondition ==
    [][(pc = "idle" /\ args'.input_dir = DirMissing) =>
          /\ pc' = "raised"
          /\ raised' = "FileNotFoundError"
          /\ dirs' = dirs
          /\ files' = files
          /\ journal' = <<>>
          /\ generated_decks' = <<>>
          /\ last' = NoCall]_vars

\* The run raised for a missing input_dir while the output directory it was
\* given could have been created.
C4_Witness ==
    /\ pc = "raised"
    /\ raised = "FileNotFoundError"
    /\ args.input_dir = DirMissing
    /\ args.output_dir = DirOut
    /\ DirOut \notin dirs

\* C5: in the pipeline the writer is called only after the generator has
\* returned a deck in the same invocation; without a deck the writer is not
\* called and the pipeline returns None.
C5_WriteOnlyAfterDeck ==
    last.op = "pipeline" =>
        /\ last.writerCalls > 0 => Truthy(last.generated)
        /\ ~Truthy(last.generated) =>
              /\ last.writerCalls = 0
              /\ last.ret = None

\* The backend was called and gave no deck.
C5_Witness ==
    /\ last.op = "pipeline"
    /\ last.backendCalls = 1
    /\ last.generated = None
    /\ last.writerCalls = 0

(***************************************************************************)
(* csv.reader with the default dialect over a file opened with newline='', *)
(* used to state what a written file holds: the records of the text `b`,   *)
(* each a sequence of fields.                                              *)
(***************************************************************************)
IsLineEnd(c) == c \in {"\r", "\n"}

\* The position after the line end at position i: '\r\n' is one line end.
AfterLineEnd(b, i) ==
    IF b[i] = "\r" /\ i < Len(b) /\ b[i + 1] = "\n" THEN i + 2 ELSE i + 1

RECURSIVE CsvRead(_, _, _, _, _, _)
CsvRead(b, i, state, field, record, records) ==
    IF i > Len(b)
    THEN IF state = "start_record" THEN records
         ELSE Append(records, Append(record, field))
    ELSE LET c == b[i]
             closed == Append(records, Append(record, field))
         IN  CASE state = "start_record" /\ IsLineEnd(c) ->
                    CsvRead(b, AfterLineEnd(b, i), "start_record", <<>>, <<>>,
                            Append(records, <<>>))
               [] state \in {"start_record", "start_field"} /\ ~IsLineEnd(c) ->
                    IF c = QuoteChar
                    THEN CsvRead(b, i + 1, "in_quoted", <<>>, record, records)
                    ELSE IF c = Delimiter
                    THEN CsvRead(b, i + 1, "start_field", <<>>,
                                 Append(record, <<>>), records)
                    ELSE CsvRead(b, i + 1, "in_field", <<c>>, record, records)
               [] state \in {"start_field", "in_field", "quote_in_quoted"}
                  /\ IsLineEnd(c) ->
                    CsvRead(b, AfterLineEnd(b, i), "start_record", <<>>, <<>>,
                            closed)
               [] state = "in_field" /\ ~IsLineEnd(c) ->
                    IF c = Delimiter
                    THEN CsvRead(b, i + 1, "start_field", <<>>,
                                 Append(record, field), records)
                    ELSE CsvRead(b, i + 1, "in_field", Append(field, c),
                                 record, records)
               [] state = "in_quoted" ->
                    IF c = QuoteChar
                    THEN CsvRead(b, i + 1, "quote_in_quoted", field, record,
                                 records)
                    ELSE CsvRead(b, i + 1, "in_quoted", Append(field, c),
                                 record, records)
               [] state = "quote_in_quoted" /\ ~IsLineEnd(c) ->
                    IF c = QuoteChar
                    THEN CsvRead(b, i + 1, "in_quoted", Append(field, c),
                                 record, records)
                    ELSE IF c = Delimiter
                    THEN CsvRead(b, i + 1, "start_field", <<>>,
                                 Append(record, field), records)
                    ELSE CsvRead(b, i + 1, "in_field", Append(field, c),
                                 record, records)

\* list(csv.reader(file))
CsvRecords(b) == CsvRead(b, 1, "start_record", <<>>, <<>>, <<>>)

\* The file the last call was given as output_path.
LastFile == files[last.output_path]

\* C6: the pipeline returns a deck only if generation and the write both
\* succeeded; when the writer returns False it returns None although a
\* deck was generated, and that deck is not in the list process_directory
\* returns.
C6_DeckOnlyIfWritten ==
    /\ last.op = "pipeline" =>
          /\ Truthy(last.ret) => (Truthy(last.generated) /\ last.ok)
          /\ (last.writerCalls = 1 /\ ~last.ok) => last.ret = None
    /\ \A i \in 1..Len(journal) :
          (Truthy(journal[i].generated) /\ ~journal[i].writeOk) =>
              /\ journal[i].ret = None
              /\ \A k \in 1..Len(generated_decks) :
                    generated_decks[k] # journal[i].generated[1]

\* A run returned after a document whose deck was generated and not written.
C6_Witness ==
    /\ pc = "returned"
    /\ \E i \in 1..Len(journal) :
          /\ Truthy(journal[i].generated)
          /\ ~journal[i].writeOk
    /\ Len(generated_decks) > 0

\* C7: the output path the batch passes to the pipeline for name.md is
\* output_dir joined with name-flashcards.csv: only the trailing '.md' is
\* replaced.
C7_OutputNaming ==
    \A i \in 1..Len(journal) :
        LET filename == journal[i].filename
        IN  journal[i].output_path =
                PathJoin(args.output_dir,
                         Take(filename, Len(filename) - Len(MdSuffix)) \o CsvSuffix)

\* C8: the writer never raises: every failure of makedirs, open or a row
\* write gives False, and True is returned only when the header and every
\* row were written.
C8_WriterNeverRaises ==
    last.op = "write" =>
        /\ last.raised = NoError
        /\ last.fails => ~last.ok
        /\ last.ok =>
              /\ last.output_path \in DOMAIN files
              /\ LastFile = RowsBytes(DeckRows(last.deck[1]),
                                      Len(last.deck[1].cards) + 1)

\* The writer returned False for a write the environment made fail in a
\* directory that exists.
C8_Witness ==
    /\ last.op = "write"
    /\ last.fails
    /\ ~last.ok
    /\ Dirname(last.output_path) \in dirs

\* C9: a file the writer wrote successfully reads back as one header record
\* Question,Answer,Tags followed by one record per card, in deck order; the
\* pipeline accepts a deck without cards as a success, and its file holds
\* the header only.
C9_CsvRecords ==
    /\ (last.op \in {"write", "pipeline"} /\ last.ok) =>
          LET records == CsvRecords(LastFile)
              cards == last.deck[1].cards
          IN  /\ Len(records) = Len(cards) + 1
              /\ records[1] = HeaderRow
              /\ \A i \in 1..Len(cards) : records[i + 1] = CardRow(cards[i])
    /\ (last.op = "pipeline" /\ ~last.fails) =>
          /\ last.ok
          /\ Truthy(last.ret)

\* The pipeline succeeded with a deck without cards.
C9_Witness ==
    /\ last.op = "pipeline"
    /\ Truthy(last.ret)
    /\ last.ret[1].cards = <<>>
    /\ CsvRecords(LastFile) = <<HeaderRow>>

\* C10: a second successful pipeline run for the same output path with the
\* same deck leaves the file as the first run left it, character for
\* character: it overwrites, it does not append or merge.
C10_Idempotence ==
    [][last'.rerun =>
          /\ last'.output_path \in DOMAIN files
          /\ files'[last'.output_path] = files[last'.output_path]]_vars

\* A second successful run over a file with rows in it.
C10_Witness ==
    /\ last.op = "pipeline"
    /\ last.rerun
    /\ Truthy(last.ret)
    /\ Len(last.ret[1].cards) = MaxCards

(***************************************************************************)
(* Direct writer calls for a deck of one card whose tags are drawn from    *)
(* TagValues: plain tags, an empty tag, tags made of the separator's       *)
(* characters and a tag with the separator inside.                         *)
(***************************************************************************)
TagValues == {<<"a">>, <<"b">>, <<>>, <<",">>, <<" ">>, <<"a", ",", " ", "b">>}

TagCardLists ==
    {<<AnkiFlashcard(<<"x">>, <<"a">>, t)>> : t \in SeqUpTo(TagValues, MaxTags)}

InitTags ==
    /\ dirs \in {{}, {DirOut}}
    /\ files \in {NoFiles} \cup
                 (IF DirOut \in dirs THEN {StaleFiles({NamePlain})} ELSE {})
    /\ listing = <<>>
    /\ backendCards \in TagCardLists
    /\ pc = "idle"
    /\ args = NoArgs
    /\ idx = 0
    /\ generated_decks = <<>>
    /\ raised = NoError
    /\ journal = <<>>
    /\ last = NoCall

SpecTags == InitTags /\ [][WriteCall]_vars

\* str.split(sep): the pieces between the non-overlapping occurrences of
\* sep, found left to right; the empty string gives one empty piece.
RECURSIVE SplitFrom(_, _, _)
SplitFrom(s, sep, piece) ==
    IF s = <<>> THEN <<piece>>
    ELSE IF OccursAt(s, sep, 1)
         THEN <<piece>> \o SplitFrom(Drop(s, Len(sep)), sep, <<>>)
         ELSE SplitFrom(Tail(s), sep, Append(piece, Head(s)))

StrSplit(s, sep) == SplitFrom(s, sep, <<>>)

\* The tags read back from record number i + 1 of the last written file.
TagsReadBack(i) == StrSplit(CsvRecords(LastFile)[i + 1][3], <<",", " ">>)

ContainsText(s, t) == \E i \in 1..Len(s) : OccursAt(s, t, i)

\* Tags that the separator ', ' can carry: at least one tag, none of them
\* with the separator inside.
Separable(tags) ==
    /\ tags # <<>>
    /\ \A k \in 1..Len(tags) : ~ContainsText(tags[k], <<",", " ">>)

\* C11 as stated: for every card of a successfully written deck, splitting
\* its Tags field on ', ' gives back the card's tags.
C11_TagsRoundTrip ==
    (last.op = "write" /\ last.ok) =>
        \A i \in 1..Len(last.deck[1].cards) :
            TagsReadBack(i) = last.deck[1].cards[i].tags

\* C11 as amended: for every card of a successfully written deck that has
\* at least one tag and no tag with ', ' inside, splitting its Tags field on
\* ', ' gives back the card's tags.
C11_SeparableTagsRoundTrip ==
    (last.op = "write" /\ last.ok) =>
        \A i \in 1..Len(last.deck[1].cards) :
            Separable(last.deck[1].cards[i].tags) =>
                TagsReadBack(i) = last.deck[1].cards[i].tags

\* A card with the tags a, b was written and reads back as a, b.
C11_Witness ==
    /\ last.op = "write"
    /\ last.ok
    /\ last.deck[1].cards[1].tags = << <<"a">>, <<"b">> >>
    /\ TagsReadBack(1) = << <<"a">>, <<"b">> >>

\* The file names the run has processed, in the order it processed them.
ProcessedNames == [i \in 1..Len(journal) |-> journal[i].filename]

\* The decks of the documents the environment let succeed, in journal order.
RECURSIVE SucceededDecks(_)
SucceededDecks(j) ==
    IF j = <<>> THEN <<>>
    ELSE (IF Head(j).fails THEN <<>>
          ELSE <<AnkiDeck(backendCards, Head(j).deck_name)>>)
         \o SucceededDecks(Tail(j))

\* C12: the documents of a run are processed one per iteration in listing
\* order, and the list of decks (the one the run returns) holds the decks of
\* the documents that succeeded, in listing order, each exactly once.
C12_ListingOrder ==
    (pc \in {"loop", "returned"}) =>
        /\ ProcessedNames = SelectSeq(SubSeq(listing, 1, idx - 1), IsCandidate)
        /\ generated_decks = SucceededDecks(journal)
        /\ pc = "returned" => idx = Len(listing) + 1

\* A run returned after two documents that succeeded.
C12_Witness ==
    /\ pc = "returned"
    /\ Len(journal) = 2
    /\ ~journal[1].fails
    /\ ~journal[2].fails
    /\ generated_decks[1].deck_name = journal[1].deck_name
    /\ generated_decks[2].deck_name = journal[2].deck_name

\* C13: the writer makes sure the parent directory of output_path exists:
\* whenever that directory exists or can be created (a bare file name has
\* the current directory as parent) and the file can be written, the writer
\* returns True and the CSV of the deck is at output_path afterwards.
C13_ParentDirectoryEnsured ==
    (last.op = "write" /\ last.permitted) =>
        /\ last.ok
        /\ last.output_path \in DOMAIN files
        /\ LastFile = RowsBytes(DeckRows(last.deck[1]),
                                Len(last.deck[1].cards) + 1)

\* The same for an output_path with a directory component: there the
\* parent directory is made or found and the write succeeds.
ParentDirectoryEnsuredForNamedDirectory ==
    (last.op = "write" /\ last.permitted
        /\ Dirname(last.output_path) # DirEmpty) =>
        /\ last.ok
        /\ Dirname(last.output_path) \in dirs
        /\ last.output_path \in DOMAIN files
        /\ LastFile = RowsBytes(DeckRows(last.deck[1]),
                                Len(last.deck[1].cards) + 1)

\* C14: within one run, two distinct file names ending in '.md' get
\* distinct output paths, so that no document's CSV is written over by
\* another document of the run.
C14_DistinctOutputPaths ==
    \A i, j \in 1..Len(journal) :
        journal[i].filename # journal[j].filename =>
            journal[i].output_path # journal[j].output_path

\* What is at a path: nothing, or a file with its characters.
FileAt(fs, path) == IF path \in DOMAIN fs THEN Some(fs[path]) ELSE None

\* C15 as stated: whenever the pipeline returns None for a document, the
\* file at its output_path is as it was before the call: an earlier CSV is
\* neither truncated nor partly overwritten and no new partial file appears.
C15_FailureLeavesFile ==
    [][(last'.op = "pipeline" /\ ~Truthy(last'.ret)) =>
          FileAt(files', last'.output_path) = FileAt(files, last'.output_path)]_vars

\* C15 as amended: whenever the pipeline returns None for a document and the
\* writer did not get to open the file at its output_path (the source was
\* unreadable, num_cards invalid, no deck generated, or creating the
\* directory or opening the file failed), the file at output_path is as it
\* was before the call.
C15_FailureBeforeOpenLeavesFile ==
    [][(last'.op = "pipeline" /\ ~Truthy(last'.ret) /\ ~last'.opened) =>
          FileAt(files', last'.output_path) = FileAt(files, last'.output_path)]_vars

\* A pipeline call returned None after the writer failed to open the file,
\* and the CSV of an earlier run is still at output_path.
C15_Witness ==
    /\ last.op = "pipeline"
    /\ ~Truthy(last.ret)
    /\ last.writerCalls = 1
    /\ ~last.opened
    /\ Dirname(last.output_path) \in dirs
    /\ FileAt(files, last.output_path) = Some(StaleBytes)

====
